---- MODULE Spec2Model ----
\* Model of src-tauri/src/commands.rs: the recognition dispatch and verification
\* pipeline, the per-day usage tracker, the settings commands and the model
\* catalog.
\*
\* Strings are sequences: a text is a sequence of characters, a model selector a
\* sequence of tokens in which ":" is the character ':' and every other token is
\* a ':'-free piece of text.  String::new() is <<>>.  Option<T> is <<>> (None) or
\* <<v>> (Some(v)).
EXTENDS Integers, Sequences, FiniteSets, TLC

\* ---------------------------------------------------------------- bounds

\* longest provider-B message content that is enumerated
MaxLen == 4
\* highest per-model usage count that is reached
MaxCount == 2
\* number of local days that pass
MaxDay == 2
\* most lines of a voucher_models_text
MaxLines == 2
\* most model ids in the answer of /v1/models
MaxModels == 3
\* highest price per million tokens of the pricing page
MaxPrice == 1

\* ---------------------------------------------------------------- options, strings

None == <<>>

Some(v) == <<v>>

IsSome(o) == o # <<>>

EmptyStr == <<>>

EmptyMap == [x \in {} |-> 0]

\* all sequences over S of length at most n
SeqsUpTo(S, n) == UNION {[1..k -> S] : k \in 0..n}

\* char::is_whitespace on the characters the model uses
IsWhitespace(c) == c \in {" ", "\n"}

RECURSIVE trim_start(_)
trim_start(s) ==
    IF s # <<>> /\ IsWhitespace(Head(s)) THEN trim_start(Tail(s)) ELSE s

RECURSIVE trim_end(_)
trim_end(s) ==
    IF s # <<>> /\ IsWhitespace(s[Len(s)])
    THEN trim_end(SubSeq(s, 1, Len(s) - 1))
    ELSE s

\* str::trim
trim(s) == trim_end(trim_start(s))

\* str::split_whitespace: the maximal whitespace-free pieces, in order
RECURSIVE split_acc(_, _, _)
split_acc(s, cur, acc) ==
    IF s = <<>>
    THEN IF cur = <<>> THEN acc ELSE Append(acc, cur)
    ELSE IF IsWhitespace(Head(s))
         THEN split_acc(Tail(s), <<>>, IF cur = <<>> THEN acc ELSE Append(acc, cur))
         ELSE split_acc(Tail(s), Append(cur, Head(s)), acc)

split_whitespace(s) == split_acc(s, <<>>, <<>>)

\* [&str]::join(sep)
RECURSIVE join(_, _)
join(words, sep) ==
    IF words = <<>> THEN <<>>
    ELSE IF Len(words) = 1 THEN words[1]
    ELSE words[1] \o sep \o join(Tail(words), sep)

\* text.split_whitespace().collect::<Vec<_>>().join(" ")
normalize_ws(s) == join(split_whitespace(s), <<" ">>)

\* str::contains(char)
contains(s, c) == \E i \in 1..Len(s) : s[i] = c

\* str::find(char): the first index holding c (the caller checked contains)
find(s, c) == CHOOSE i \in 1..Len(s) : s[i] = c /\ \A j \in 1..(i - 1) : s[j] # c

\* ---------------------------------------------------------------- constants

PROVIDER_SIMPLETEX == <<"simpletex">>

PROVIDER_SILICONFLOW == <<"siliconflow">>

LATEX_OCR == <<"latex_ocr">>

LATEX_OCR_TURBO == <<"latex_ocr_turbo">>

SIMPLETEX_OCR == <<"simpletex_ocr">>

\* (id, name, free_per_day, mode); the names are abbreviated to one token
SIMPLETEX_MODELS ==
    << [id |-> LATEX_OCR,       name |-> <<"SimpleTex standard">>,    mode |-> "formula"],
       [id |-> LATEX_OCR_TURBO, name |-> <<"SimpleTex turbo">>,       mode |-> "formula"],
       [id |-> SIMPLETEX_OCR,   name |-> <<"SimpleTex general">>,     mode |-> "document"] >>

SimpleTexIds == {SIMPLETEX_MODELS[i].id : i \in 1..Len(SIMPLETEX_MODELS)}

\* the error strings of recognize and recognize_simpletex, by their meaning
ErrStNotConfigured == "SimpleTex token not configured"
ErrSfNotConfigured == "SiliconFlow API key not configured"
ErrNoModel == "no model selected"
ErrBase64 == "base64 decode failed"
ErrStRequest == "SimpleTex request failed"
ErrStHttp == "SimpleTex API error"
ErrParse == "parse response failed"
ErrStAuth == "SimpleTex token invalid or expired"
ErrStQuota == "SimpleTex quota used up"
ErrStOther == "SimpleTex recognition failed"
ErrSfRequest == "request failed"
ErrSfStatus == "API call failed: status"
ErrSfImageSize == "image too small"
ErrSfMessage == "provider message"

\* ---------------------------------------------------------------- usage tracking

\* HashMap::insert / entry(k)
MapPut(m, k, v) == [x \in (DOMAIN m) \cup {k} |-> IF x = k THEN v ELSE m[x]]

MapGet(m, k, default) == IF k \in DOMAIN m THEN m[k] ELSE default

\* chrono's format("%Y-%m-%d") of local day d: a non-empty string, one per day
FormatDate(d) == <<d>>

\* the file usage.json: absent, not JSON, or a JSON value with optional fields
UsageMissing == [kind |-> "missing", date |-> None, models |-> None]

UsageGarbage == [kind |-> "garbage", date |-> None, models |-> None]

UsageEmptyJson == [kind |-> "json", date |-> None, models |-> None]

UsageJson(date, models) == [kind |-> "json", date |-> Some(date), models |-> Some(models)]

load_usage(file) ==
    IF file.kind = "json"
    THEN [date   |-> IF IsSome(file.date) THEN file.date[1] ELSE EmptyStr,
          models |-> IF IsSome(file.models) THEN file.models[1] ELSE EmptyMap]
    ELSE [date |-> EmptyStr, models |-> EmptyMap]

get_model_usage_today(file, day, model_id) ==
    LET u == load_usage(file) IN
    IF u.date # FormatDate(day) THEN 0 ELSE MapGet(u.models, model_id, 0)

\* usage_after_increment without models.clear(): a stale record keeps its counts
usage_after_increment_no_clear(loaded, day, model_id) ==
    LET count == MapGet(loaded.models, model_id, 0) + 1
    IN  UsageJson(FormatDate(day), MapPut(loaded.models, model_id, count))

\* lines 201-208 of increment_model_usage: what is written, given what was loaded
usage_after_increment(loaded, day, model_id) ==
    LET models == IF loaded.date # FormatDate(day) THEN EmptyMap ELSE loaded.models
        count  == MapGet(models, model_id, 0) + 1
    IN  UsageJson(FormatDate(day), MapPut(models, model_id, count))

increment_model_usage(file, day, model_id) ==
    usage_after_increment(load_usage(file), day, model_id)

\* ---------------------------------------------------------------- store

\* config.json after the setup of lib.rs on a first run
StoreDefaults ==
    [simpletex_token |-> Some(EmptyStr),
     siliconflow_key |-> Some(EmptyStr),
     simpletex_model |-> None,
     voucher_models  |-> Some(<<>>)]

\* get_store_string and get_store_vec: the value, or the default when unset
get_store_string(st, key) == IF IsSome(st[key]) THEN st[key][1] ELSE EmptyStr

get_store_vec(st, key) == IF IsSome(st[key]) THEN st[key][1] ELSE <<>>

\* ---------------------------------------------------------------- responses

NoErr == [msg |-> "", detail |-> <<>>]

\* Result<RecognizeResponse, String> of recognize
Ok(text, model, verified, corrected, original_text) ==
    [ok |-> TRUE, err |-> NoErr, text |-> text, model |-> model,
     verified |-> verified, corrected |-> corrected, original_text |-> original_text]

Err(msg, detail) ==
    [ok |-> FALSE, err |-> [msg |-> msg, detail |-> detail], text |-> <<>>, model |-> <<>>,
     verified |-> None, corrected |-> None, original_text |-> None]

NoResult == Err("", <<>>)

\* reqwest's StatusCode::is_success
is_success(status) == status >= 200 /\ status <= 299

\* ---------------------------------------------------------------- provider A client

\* The answers the SimpleTex server can give to one request.
\*   kind "neterr": send() failed; "http": a response arrived, body "text"
\*   (not JSON) or "json".  The JSON fields the code reads are options.
StErrCodes == {"req_unauthorized", "resource_no_valid", "server_busy"}

StNetErr ==
    [kind |-> "neterr", status |-> 0, body |-> "none", flag |-> None,
     res_errType |-> None, err_info_err_type |-> None, errType |-> None,
     info |-> "absent", info_str |-> None, info_markdown |-> None, info_text |-> None,
     res_markdown |-> None, res_latex |-> None]

StHttp(status, body) == [StNetErr EXCEPT !.kind = "http", !.status = status, !.body = body]

OptCodes == {None} \cup {Some(c) : c \in StErrCodes}

OptText == {None, Some(<<"x">>)}

\* a JSON body whose status flag is absent or false
StFailureBodies ==
    {[StHttp(200, "json") EXCEPT !.flag = f, !.res_errType = a,
                                 !.err_info_err_type = b, !.errType = c] :
        f \in {None, Some(FALSE)}, a \in OptCodes, b \in OptCodes, c \in OptCodes}

\* a JSON body whose status flag is true, in each shape of the result
StSuccessBodies ==
    {[StHttp(200, "json") EXCEPT !.flag = Some(TRUE), !.info = "string", !.info_str = Some(t)] :
        t \in {<<>>, <<"x">>}}
    \cup {[StHttp(200, "json") EXCEPT !.flag = Some(TRUE), !.info = "object",
                                      !.info_markdown = m, !.info_text = t] :
        m \in OptText, t \in OptText}
    \cup {[StHttp(200, "json") EXCEPT !.flag = Some(TRUE), !.res_markdown = m, !.res_latex = l] :
        m \in OptText, l \in OptText}

StResponses ==
    {StNetErr, StHttp(401, "text"), StHttp(500, "json"), StHttp(200, "text")}
    \cup StFailureBodies \cup StSuccessBodies

\* Option::or_else
or_else(a, b) == IF IsSome(a) THEN a ELSE b

\* Option::unwrap_or
unwrap_or(a, d) == IF IsSome(a) THEN a[1] ELSE d

\* simpletex_error reading two locations only, res.errType and
\* err_info.err_type
simpletex_error_two_locations(r) ==
    LET err_type == unwrap_or(or_else(r.res_errType, r.err_info_err_type), "unknown")
    IN  IF err_type = "req_unauthorized" THEN Err(ErrStAuth, <<>>)
        ELSE IF err_type = "resource_no_valid" THEN Err(ErrStQuota, <<>>)
        ELSE Err(ErrStOther, <<err_type>>)

\* lines 333-345: the error of a body whose status flag is not true
simpletex_error(r) ==
    LET err_type == unwrap_or(or_else(r.res_errType, or_else(r.err_info_err_type, r.errType)),
                              "unknown")
    IN  IF err_type = "req_unauthorized" THEN Err(ErrStAuth, <<>>)
        ELSE IF err_type = "resource_no_valid" THEN Err(ErrStQuota, <<>>)
        ELSE Err(ErrStOther, <<err_type>>)

\* lines 347-359: the text of a successful body
simpletex_text(r) ==
    IF r.info = "string" THEN r.info_str[1]
    ELSE IF r.info = "object"
         THEN unwrap_or(or_else(r.info_markdown, r.info_text), <<"{info}">>)
         ELSE unwrap_or(or_else(r.res_markdown, r.res_latex), <<>>)

\* recognize_simpletex from the answer on (lines 321-362); the result is
\* Ok(text) or Err(message), in the shape of recognize's own result
recognize_simpletex(r) ==
    IF r.kind = "neterr" THEN Err(ErrStRequest, <<>>)
    ELSE IF ~is_success(r.status) THEN Err(ErrStHttp, <<r.status>>)
    ELSE IF r.body # "json" THEN Err(ErrParse, <<>>)
    ELSE IF ~unwrap_or(r.flag, FALSE) THEN simpletex_error(r)
    ELSE Ok(simpletex_text(r), <<>>, None, None, None)

\* lines 309-311: the payload after the last ',' must be base64
Images == {"base64", "data:image/png;base64,base64", "not base64"}

base64_decodes(image) == image # "not base64"

\* ---------------------------------------------------------------- provider B answers

MsgSize == "height and width must be larger"

MsgOther == "model does not exist"

SfNetErr ==
    [kind |-> "neterr", status |-> 0, body |-> "none",
     message |-> None, error_message |-> None, content |-> None]

SfHttp(status, body) == [SfNetErr EXCEPT !.kind = "http", !.status = status, !.body = body]

SfErrorBodies ==
    {SfHttp(500, "text")}
    \cup {[SfHttp(400, "json") EXCEPT !.message = m, !.error_message = e] :
            m \in {None, Some(""), Some(MsgOther)}, e \in {None, Some(MsgSize)}}

\* the answers to a chat-completion call whose content, if any, is drawn from C
SfResponses(C) ==
    {SfNetErr, SfHttp(200, "text"), SfHttp(200, "json")}
    \cup SfErrorBodies
    \cup {[SfHttp(200, "json") EXCEPT !.content = Some(c)] : c \in C}

\* msg.to_lowercase() contains "height", "width" and "must be larger"
is_size_message(msg) == msg = MsgSize

\* lines 784-801: the message of a non-success answer
sf_error_message(r) ==
    LET msg == IF r.body = "json" THEN unwrap_or(or_else(r.message, r.error_message), "") ELSE ""
    IN  IF msg = "" THEN Err(ErrSfStatus, <<r.status>>)
        ELSE IF is_size_message(msg) THEN Err(ErrSfImageSize, <<>>)
        ELSE Err(ErrSfMessage, <<msg>>)

\* data["choices"][0]["message"]["content"].as_str().unwrap_or("").trim()
content_text(r) == trim(unwrap_or(r.content, <<>>))

\* ---------------------------------------------------------------- state

Procs == {1, 2}

VARIABLES
    store,          \* config.json: key -> Option value
    usage,          \* the file usage.json
    today,          \* the local day, Local::now()
    task,           \* per command slot: the command in flight and its locals
    result,         \* per slot: the Result of a finished recognize
    settings,       \* per slot: the response of a finished get_settings
    saved,          \* per slot: the response of a finished save_settings
    available,      \* per slot: the response of a finished get_available_models
    succeeded       \* per resolved model: the recognize commands that ended in
                    \* Success via provider A since local midnight

vars == <<store, usage, today, task, result, settings, saved, available, succeeded>>

NoLoaded == [date |-> EmptyStr, models |-> EmptyMap]

\* save_settings called with nothing
NoArgs ==
    [simpletex_token |-> None, siliconflow_key |-> None,
     simpletex_model |-> None, voucher_models_text |-> None]

\* a free slot.  all_models and sf_models are the locals of
\* fetch_sf_vision_models and get_available_models of these names; before is the usage file as the command read it and day the
\* local day it read; text2 is the text of the verification answer; args, token_valid and key_valid are the arguments of a
\* save_settings and the verdicts of its validations; calls1/calls2 count the primary and verification requests the
\* command has sent; net1/net2 record the class of the answer each one got;
\* answer is the answer of provider A the command received, if it received one
IdleTask ==
    [cmd |-> "none", pc |-> "idle", model_id |-> <<>>, mode |-> "", provider |-> <<>>,
     actual_model |-> <<>>, rec_mode |-> None, text1 |-> <<>>, text2 |-> <<>>,
     loaded |-> NoLoaded, day |-> 0,
     before |-> UsageMissing, args |-> NoArgs, token_valid |-> None, key_valid |-> None,
     calls1 |-> 0, calls2 |-> 0, net1 |-> "none", net2 |-> "none", answer |-> None,
     all_models |-> <<>>, sf_models |-> <<>>]

NoSettings ==
    [has_key |-> FALSE, has_simpletex |-> FALSE, simpletex_model |-> <<>>,
     simpletex_usage_by_model |-> EmptyMap, sf_balance |-> None, voucher_models |-> <<>>]

NoSaved == [ok |-> FALSE, errors |-> <<>>]

NoAvailable ==
    [models |-> <<>>, sf_balance |-> None, sf_charge_balance |-> None,
     voucher_balance |-> None]

Modes == {"formula", "ocr", "document"}

\* the model selectors a caller passes: bare ids, "provider:model" with each
\* provider, an empty model, an unknown provider, "simpletex" in another case,
\* an empty provider, a model id that holds ':' itself
Selectors ==
    { <<>>,
      <<"latex_ocr">>,
      <<"simpletex", ":", "latex_ocr">>,
      <<"simpletex", ":", "simpletex_ocr">>,
      <<"siliconflow", ":", "Qwen2-VL">>,
      <<"siliconflow", ":">>,
      <<"siliconflow", ":", "Pro/GLM-4V", ":", "beta">>,
      <<"openai", ":", "Qwen2-VL">>,
      <<"SimpleTex", ":", "latex_ocr">>,
      <<":", "Qwen2-VL">> }

\* the class of an answer, as the transport delivers it
AnswerClass(r) ==
    IF r.kind = "neterr" THEN "neterr"
    ELSE IF ~is_success(r.status) THEN "http_error"
    ELSE IF r.body # "json" THEN "unparsable"
    ELSE "json"

Init ==
    /\ store = StoreDefaults
    /\ usage \in {UsageMissing, UsageGarbage, UsageEmptyJson}
    /\ today = 1
    /\ task = [p \in Procs |-> IdleTask]
    /\ result = [p \in Procs |-> NoResult]
    /\ settings = [p \in Procs |-> NoSettings]
    /\ saved = [p \in Procs |-> NoSaved]
    /\ available = [p \in Procs |-> NoAvailable]
    /\ succeeded = EmptyMap

\* ---------------------------------------------------------------- recognize

\* resolve that splits the selector at its last ':'
resolve_last_colon(model_id, mode, st) ==
    IF contains(model_id, ":")
    THEN LET i == CHOOSE k \in 1..Len(model_id) :
                    model_id[k] = ":" /\ \A j \in (k + 1)..Len(model_id) : model_id[j] # ":"
         IN  [provider     |-> SubSeq(model_id, 1, i - 1),
              actual_model |-> SubSeq(model_id, i + 1, Len(model_id))]
    ELSE IF get_store_string(st, "simpletex_token") # EmptyStr /\ mode = "formula"
         THEN [provider |-> PROVIDER_SIMPLETEX, actual_model |-> LATEX_OCR]
         ELSE [provider |-> PROVIDER_SILICONFLOW, actual_model |-> EmptyStr]

\* lines 699-710: (provider, actual_model) of a selector
resolve(model_id, mode, st) ==
    IF contains(model_id, ":")
    THEN LET i == find(model_id, ":") IN
         [provider     |-> SubSeq(model_id, 1, i - 1),
          actual_model |-> SubSeq(model_id, i + 1, Len(model_id))]
    ELSE IF get_store_string(st, "simpletex_token") # EmptyStr /\ mode = "formula"
         THEN [provider |-> PROVIDER_SIMPLETEX, actual_model |-> LATEX_OCR]
         ELSE [provider |-> PROVIDER_SILICONFLOW, actual_model |-> EmptyStr]

\* lines 718-722
rec_mode_of(actual_model, mode) ==
    IF actual_model = SIMPLETEX_OCR
    THEN Some(IF mode = "formula" THEN "formula" ELSE "document")
    ELSE None

\* lines 727-734: format!("SimpleTex ({})", model_name)
simpletex_label(actual_model) ==
    LET hits == {i \in 1..Len(SIMPLETEX_MODELS) : SIMPLETEX_MODELS[i].id = actual_model}
        model_name == IF hits = {} THEN actual_model
                      ELSE SIMPLETEX_MODELS[CHOOSE i \in hits : \A j \in hits : i <= j].name
    IN  <<"SimpleTex (">> \o model_name \o <<")">>

\* lines 732-738
simpletex_response(text, actual_model) ==
    Ok(text, simpletex_label(actual_model), None, None, None)

\* dispatch that takes the provider-A path for every provider but "siliconflow"
dispatch_else_simpletex(image, mode, model_id, st) ==
    LET r == resolve(model_id, mode, st) IN
    IF r.provider # PROVIDER_SILICONFLOW
    THEN IF get_store_string(st, "simpletex_token") = EmptyStr
         THEN [next |-> "done", res |-> Err(ErrStNotConfigured, <<>>)]
         ELSE IF ~base64_decodes(image)
              THEN [next |-> "done", res |-> Err(ErrBase64, <<>>)]
              ELSE [next |-> "st_call", res |-> NoResult]
    ELSE IF get_store_string(st, "siliconflow_key") = EmptyStr
         THEN [next |-> "done", res |-> Err(ErrSfNotConfigured, <<>>)]
         ELSE IF r.actual_model = EmptyStr
              THEN [next |-> "done", res |-> Err(ErrNoModel, <<>>)]
              ELSE [next |-> "sf_call1", res |-> NoResult]

\* lines 712-716 and 742-752, 309-311: what the call does before its first
\* request: "st_call" / "sf_call1" when it sends one, else the error it returns
dispatch(image, mode, model_id, st) ==
    LET r == resolve(model_id, mode, st) IN
    IF r.provider = PROVIDER_SIMPLETEX
    THEN IF get_store_string(st, "simpletex_token") = EmptyStr
         THEN [next |-> "done", res |-> Err(ErrStNotConfigured, <<>>)]
         ELSE IF ~base64_decodes(image)
              THEN [next |-> "done", res |-> Err(ErrBase64, <<>>)]
              ELSE [next |-> "st_call", res |-> NoResult]
    ELSE IF get_store_string(st, "siliconflow_key") = EmptyStr
         THEN [next |-> "done", res |-> Err(ErrSfNotConfigured, <<>>)]
         ELSE IF r.actual_model = EmptyStr
              THEN [next |-> "done", res |-> Err(ErrNoModel, <<>>)]
              ELSE [next |-> "sf_call1", res |-> NoResult]

\* recognize up to its first await
RecognizeCall(p, selectors, modes) ==
    /\ task[p].pc = "idle"
    /\ \E image \in Images, mode \in modes, model_id \in selectors :
         LET r == resolve(model_id, mode, store)
             d == dispatch(image, mode, model_id, store)
         IN  /\ task' = [task EXCEPT ![p] =
                    [IdleTask EXCEPT !.cmd = "recognize", !.pc = d.next, !.mode = mode,
                                     !.model_id = model_id,
                                     !.before = usage, !.day = today,
                                     !.provider = r.provider, !.actual_model = r.actual_model,
                                     !.rec_mode = IF d.next = "st_call"
                                                  THEN rec_mode_of(r.actual_model, mode)
                                                  ELSE None,
                                     !.calls1 = IF d.next = "done" THEN 0 ELSE 1]]
             /\ result' = [result EXCEPT ![p] = d.res]
    /\ UNCHANGED <<store, usage, today, settings, saved, available, succeeded>>

\* one more recognize command ended in Success via provider A on model m
counted_success(done, m) == MapPut(done, m, MapGet(done, m, 0) + 1)

\* the counts stay within MaxCount: an answer that would raise one beyond it is
\* not delivered
CountRoom(p) ==
    get_model_usage_today(usage, today, task[p].actual_model)
      + Cardinality({q \in Procs \ {p} : /\ task[q].pc \in {"incr_load", "incr_write"}
                                         /\ task[q].actual_model = task[p].actual_model})
      < MaxCount

StAnswerClass(r) ==
    IF AnswerClass(r) # "json" THEN AnswerClass(r)
    ELSE IF r.flag = Some(TRUE) THEN "status_true" ELSE "status_false"

\* RecognizeSimpleTexAnswer with the usage incremented before the answer is
\* looked at
RecognizeSimpleTexAnswerCountFirst(p) ==
    /\ task[p].pc = "st_call"
    /\ \E r \in StResponses :
         LET out == recognize_simpletex(r) IN
         /\ task' = [task EXCEPT ![p].pc = "done", ![p].net1 = StAnswerClass(r),
                                  ![p].answer = Some(r),
                                  ![p].before = usage, ![p].day = today]
         /\ CountRoom(p)
         /\ usage' = increment_model_usage(usage, today, task[p].actual_model)
         /\ result' = [result EXCEPT ![p] =
                IF out.ok THEN simpletex_response(out.text, task[p].actual_model) ELSE out]
         /\ succeeded' = IF out.ok THEN counted_success(succeeded, task[p].actual_model)
                         ELSE succeeded
    /\ UNCHANGED <<store, today, settings, saved, available>>

\* lines 724-738 run as one step: the answer of provider A arrives, the usage is
\* incremented and the command returns
RecognizeSimpleTexAnswer(p) ==
    /\ task[p].pc = "st_call"
    /\ \E r \in StResponses :
         LET out == recognize_simpletex(r) IN
         /\ task' = [task EXCEPT ![p].pc = "done", ![p].net1 = StAnswerClass(r),
                                  ![p].answer = Some(r),
                                  ![p].before = usage, ![p].day = today]
         /\ IF out.ok
            THEN /\ CountRoom(p)
                 /\ usage' = increment_model_usage(usage, today, task[p].actual_model)
                 /\ result' = [result EXCEPT ![p] =
                                   simpletex_response(out.text, task[p].actual_model)]
                 /\ succeeded' = counted_success(succeeded, task[p].actual_model)
            ELSE /\ result' = [result EXCEPT ![p] = out]
                 /\ UNCHANGED <<usage, succeeded>>
    /\ UNCHANGED <<store, today, settings, saved, available>>

\* first_result with verified set in every mode
first_result_any_mode(text1, sf_model, mode) ==
    Ok(text1, sf_model, Some(FALSE), None, None)

\* lines 865-871: the first result, returned unverified
first_result(text1, sf_model, mode) ==
    Ok(text1, sf_model, IF mode = "formula" THEN Some(FALSE) ELSE None, None, None)

\* lines 777-814: the command after the answer to its primary request: the
\* result it returns, or next = "sf_call2" when it goes on to verify
after_primary(mode, sf_model, r) ==
    IF r.kind = "neterr" THEN [next |-> "done", text1 |-> <<>>, res |-> Err(ErrSfRequest, <<>>)]
    ELSE IF ~is_success(r.status)
         THEN [next |-> "done", text1 |-> <<>>, res |-> sf_error_message(r)]
    ELSE IF r.body # "json"
         THEN [next |-> "done", text1 |-> <<>>, res |-> Err(ErrParse, <<>>)]
    ELSE LET text1 == content_text(r) IN
         IF text1 = <<>>
         THEN [next |-> "done", text1 |-> text1,
               res |-> Ok(<<>>, sf_model, Some(FALSE), None, None)]
         ELSE IF mode = "formula"
              THEN [next |-> "sf_call2", text1 |-> text1, res |-> NoResult]
              ELSE [next |-> "done", text1 |-> text1,
                    res |-> first_result(text1, sf_model, mode)]

\* texts_agree comparing the texts as received
texts_agree_raw(text1, text2) == text1 = text2

\* lines 846-848: n1 == n2
texts_agree(text1, text2) == normalize_ws(text1) = normalize_ws(text2)

\* verified_response that keeps the primary text when the texts differ
verified_response_keep_primary(text1, text2, sf_model) ==
    LET verified  == texts_agree(text1, text2)
        corrected == ~verified
    IN  Ok(text1, sf_model, Some(verified), Some(corrected),
           IF corrected THEN Some(text2) ELSE None)

\* verified_response that returns the primary text in its normalised form
verified_response_collapsed(text1, text2, sf_model) ==
    LET verified  == texts_agree(text1, text2)
        corrected == ~verified
    IN  Ok(IF corrected THEN text2 ELSE normalize_ws(text1), sf_model,
           Some(verified), Some(corrected),
           IF corrected THEN Some(text1) ELSE None)

\* lines 848-857
verified_response(text1, text2, sf_model) ==
    LET verified  == texts_agree(text1, text2)
        corrected == ~verified
    IN  Ok(IF corrected THEN text2 ELSE text1, sf_model, Some(verified), Some(corrected),
           IF corrected THEN Some(text1) ELSE None)

\* after_verify with the transport error of the verification request propagated
\* (send().await? in place of the if let Ok)
after_verify_propagate(text1, sf_model, mode, r) ==
    IF r.kind = "neterr" THEN Err(ErrSfRequest, <<>>)
    ELSE IF is_success(r.status) /\ r.body = "json" /\ content_text(r) # <<>>
    THEN verified_response(text1, content_text(r), sf_model)
    ELSE first_result(text1, sf_model, mode)

\* lines 841-871: the result after the answer to the verification request
after_verify(text1, sf_model, mode, r) ==
    IF r.kind = "http" /\ is_success(r.status) /\ r.body = "json" /\ content_text(r) # <<>>
    THEN verified_response(text1, content_text(r), sf_model)
    ELSE first_result(text1, sf_model, mode)

SfAnswerClass(r) ==
    IF AnswerClass(r) # "json" THEN AnswerClass(r)
    ELSE IF content_text(r) = <<>> THEN "empty" ELSE "content"

\* RecognizePrimaryAnswer that sends the primary request once more after a
\* transport error
RecognizePrimaryAnswerRetry(p, contents) ==
    /\ task[p].pc = "sf_call1"
    /\ \E r \in SfResponses(contents) :
         LET a == after_primary(task[p].mode, task[p].actual_model, r)
             again == r.kind = "neterr" /\ task[p].calls1 < 2
         IN
         /\ task' = [task EXCEPT ![p].pc = IF again THEN "sf_call1" ELSE a.next,
                                  ![p].text1 = a.text1,
                                  ![p].net1 = SfAnswerClass(r),
                                  ![p].calls1 = IF again THEN task[p].calls1 + 1
                                                ELSE task[p].calls1,
                                  ![p].calls2 = IF a.next = "sf_call2"
                                                THEN task[p].calls2 + 1 ELSE task[p].calls2]
         /\ result' = [result EXCEPT ![p] = IF again THEN NoResult ELSE a.res]
    /\ UNCHANGED <<store, usage, today, settings, saved, available, succeeded>>

\* RecognizePrimaryAnswer that counts a provider-B result in the usage record
RecognizePrimaryAnswerCounted(p, contents) ==
    /\ task[p].pc = "sf_call1"
    /\ \E r \in SfResponses(contents) :
         LET a == after_primary(task[p].mode, task[p].actual_model, r) IN
         /\ task' = [task EXCEPT ![p].pc = a.next, ![p].text1 = a.text1,
                                  ![p].net1 = SfAnswerClass(r),
                                  ![p].calls2 = IF a.next = "sf_call2"
                                                THEN task[p].calls2 + 1 ELSE task[p].calls2]
         /\ result' = [result EXCEPT ![p] = a.res]
         /\ usage' = IF a.next = "done" /\ a.res.ok
                     THEN increment_model_usage(usage, today, task[p].actual_model)
                     ELSE usage
    /\ UNCHANGED <<store, today, settings, saved, available, succeeded>>

\* the answer to the primary request of provider B arrives (lines 782-839)
RecognizePrimaryAnswer(p, contents) ==
    /\ task[p].pc = "sf_call1"
    /\ \E r \in SfResponses(contents) :
         LET a == after_primary(task[p].mode, task[p].actual_model, r) IN
         /\ task' = [task EXCEPT ![p].pc = a.next, ![p].text1 = a.text1,
                                  ![p].net1 = SfAnswerClass(r),
                                  ![p].calls2 = IF a.next = "sf_call2"
                                                THEN task[p].calls2 + 1 ELSE task[p].calls2]
         /\ result' = [result EXCEPT ![p] = a.res]
    /\ UNCHANGED <<store, usage, today, settings, saved, available, succeeded>>

\* the answer to the verification request arrives (lines 839-871)
RecognizeVerifyAnswer(p, contents) ==
    /\ task[p].pc = "sf_call2"
    /\ \E r \in SfResponses(contents) :
         /\ task' = [task EXCEPT ![p].pc = "done", ![p].net2 = SfAnswerClass(r),
                                  ![p].text2 = IF AnswerClass(r) = "json"
                                               THEN content_text(r) ELSE <<>>]
         /\ result' = [result EXCEPT ![p] =
                after_verify(task[p].text1, task[p].actual_model, task[p].mode, r)]
    /\ UNCHANGED <<store, usage, today, settings, saved, available, succeeded>>

\* ---------------------------------------------------------------- recognize, concurrent
\* Under a multi-threaded runtime the statements of increment_model_usage of
\* two commands interleave: the load (line 200) and the write (line 208) are
\* separate steps.

\* the answer of provider A arrives (line 724)
SimpleTexAnswer(p, responses) ==
    /\ task[p].pc = "st_call"
    /\ \E r \in responses :
         LET out == recognize_simpletex(r) IN
         /\ out.ok => CountRoom(p)
         /\ task' = [task EXCEPT ![p].pc = IF out.ok THEN "incr_load" ELSE "done",
                                  ![p].net1 = StAnswerClass(r),
                                  ![p].answer = Some(r),
                                  ![p].text1 = out.text]
         /\ result' = [result EXCEPT ![p] = IF out.ok THEN NoResult ELSE out]
    /\ UNCHANGED <<store, usage, today, settings, saved, available, succeeded>>

\* lines 199-200
IncrementLoad(p) ==
    /\ task[p].pc = "incr_load"
    /\ task' = [task EXCEPT ![p].pc = "incr_write", ![p].loaded = load_usage(usage),
                             ![p].before = usage, ![p].day = today]
    /\ UNCHANGED <<store, usage, today, result, settings, saved, available, succeeded>>

\* written_usage under a lock held from the load on: the file is read again
written_usage_locked(p) ==
    increment_model_usage(usage, task[p].day, task[p].actual_model)

\* what line 208 writes
written_usage(p) == usage_after_increment(task[p].loaded, task[p].day, task[p].actual_model)

\* lines 201-208, then 727-738
IncrementWrite(p) ==
    /\ task[p].pc = "incr_write"
    /\ usage' = written_usage(p)
    /\ task' = [task EXCEPT ![p].pc = "done"]
    /\ result' = [result EXCEPT ![p] =
                      simpletex_response(task[p].text1, task[p].actual_model)]
    /\ succeeded' = counted_success(succeeded, task[p].actual_model)
    /\ UNCHANGED <<store, today, settings, saved, available>>

\* ---------------------------------------------------------------- the host

\* Return that also drops a command whose provider call is pending (a timeout
\* or a cancellation)
ReturnOrCancel(p) ==
    /\ task[p].pc \in {"done", "st_call", "sf_call1", "sf_call2"}
    /\ task' = [task EXCEPT ![p] = IdleTask]
    /\ result' = [result EXCEPT ![p] = NoResult]
    /\ settings' = [settings EXCEPT ![p] = NoSettings]
    /\ saved' = [saved EXCEPT ![p] = NoSaved]
    /\ available' = [available EXCEPT ![p] = NoAvailable]
    /\ UNCHANGED <<store, usage, today, succeeded>>

\* the host delivers the response of a finished command; the slot is free again
Return(p) ==
    /\ task[p].pc = "done"
    /\ task' = [task EXCEPT ![p] = IdleTask]
    /\ result' = [result EXCEPT ![p] = NoResult]
    /\ settings' = [settings EXCEPT ![p] = NoSettings]
    /\ saved' = [saved EXCEPT ![p] = NoSaved]
    /\ available' = [available EXCEPT ![p] = NoAvailable]
    /\ UNCHANGED <<store, usage, today, succeeded>>

\* local midnight passes
Midnight ==
    /\ today < MaxDay
    /\ today' = today + 1
    /\ succeeded' = EmptyMap
    /\ UNCHANGED <<store, usage, task, result, settings, saved, available>>

\* ---------------------------------------------------------------- settings commands

TOKEN == <<"st-token">>

KEY == <<"sf-key">>

\* validate_simpletex_token, from the answer to its probe on (lines 465-481)
validate_simpletex_token(r) ==
    IF r.kind = "neterr" THEN FALSE
    ELSE IF r.status = 401 THEN FALSE
    ELSE IF r.body = "json"
            /\ unwrap_or(or_else(r.res_errType, r.err_info_err_type), "") = "req_unauthorized"
         THEN FALSE
         ELSE TRUE

\* validate_siliconflow_key, from the answer to its probe on (lines 486-491)
validate_siliconflow_key(r) == r.kind = "http" /\ is_success(r.status)

\* the answers of /v1/user/info
SfInfoResponses ==
    {SfNetErr, SfHttp(401, "json"), SfHttp(200, "text"), SfHttp(200, "json")}

\* the verdict of a validation: None when the credential is not validated
\* (absent or empty), else Some(valid)
TokenVerdicts(arg) ==
    IF IsSome(arg) /\ arg[1] # EmptyStr
    THEN {Some(validate_simpletex_token(r)) : r \in StResponses}
    ELSE {None}

KeyVerdicts(arg) ==
    IF IsSome(arg) /\ arg[1] # EmptyStr
    THEN {Some(validate_siliconflow_key(r)) : r \in SfInfoResponses}
    ELSE {None}

\* str::lines: the pieces between '\n', without a last empty piece
RECURSIVE lines_acc(_, _, _)
lines_acc(s, cur, acc) ==
    IF s = <<>>
    THEN IF cur = <<>> THEN acc ELSE Append(acc, cur)
    ELSE IF Head(s) = "\n"
         THEN lines_acc(Tail(s), <<>>, Append(acc, cur))
         ELSE lines_acc(Tail(s), Append(cur, Head(s)), acc)

lines(s) == lines_acc(s, <<>>, <<>>)

\* Iterator::filter on a Vec
RECURSIVE filter_lines(_)
filter_lines(ls) ==
    IF ls = <<>> THEN <<>>
    ELSE LET l == trim(Head(ls)) IN
         IF l # <<>> /\ contains(l, "/")
         THEN <<l>> \o filter_lines(Tail(ls))
         ELSE filter_lines(Tail(ls))

\* lines 444-447
voucher_ids(text) == filter_lines(lines(text))

ErrTokenCleared == "SimpleTex token invalid, cleared"

ErrKeyCleared == "SiliconFlow API key invalid, cleared"

\* save_outcome that returns at the first failed validation
save_outcome_abort(st, a, token_valid, key_valid) ==
    LET check_token == IsSome(a.simpletex_token) /\ a.simpletex_token[1] # EmptyStr
        check_key   == IsSome(a.siliconflow_key) /\ a.siliconflow_key[1] # EmptyStr
        st1 == IF ~check_token THEN st
               ELSE IF token_valid = Some(TRUE)
                    THEN [st EXCEPT !.simpletex_token = Some(a.simpletex_token[1])]
                    ELSE [st EXCEPT !.simpletex_token = Some(EmptyStr)]
        st2 == IF ~check_key THEN st1
               ELSE IF key_valid = Some(TRUE)
                    THEN [st1 EXCEPT !.siliconflow_key = Some(a.siliconflow_key[1])]
                    ELSE [st1 EXCEPT !.siliconflow_key = Some(EmptyStr)]
        st3 == IF IsSome(a.simpletex_model)
               THEN [st2 EXCEPT !.simpletex_model = Some(a.simpletex_model[1])]
               ELSE st2
        st4 == IF IsSome(a.voucher_models_text)
               THEN [st3 EXCEPT !.voucher_models = Some(voucher_ids(a.voucher_models_text[1]))]
               ELSE st3
    IN  IF check_token /\ token_valid # Some(TRUE)
        THEN [store |-> st1, errors |-> <<ErrTokenCleared>>]
        ELSE IF check_key /\ key_valid # Some(TRUE)
             THEN [store |-> st2, errors |-> <<ErrKeyCleared>>]
             ELSE [store |-> st4, errors |-> <<>>]

\* lines 416-449: the store and the errors after save_settings with arguments a,
\* given the verdicts of the validations it ran
save_outcome(st, a, token_valid, key_valid) ==
    LET check_token == IsSome(a.simpletex_token) /\ a.simpletex_token[1] # EmptyStr
        check_key   == IsSome(a.siliconflow_key) /\ a.siliconflow_key[1] # EmptyStr
        st1 == IF ~check_token THEN st
               ELSE IF token_valid = Some(TRUE)
                    THEN [st EXCEPT !.simpletex_token = Some(a.simpletex_token[1])]
                    ELSE [st EXCEPT !.simpletex_token = Some(EmptyStr)]
        e1  == IF check_token /\ token_valid # Some(TRUE) THEN <<ErrTokenCleared>> ELSE <<>>
        st2 == IF ~check_key THEN st1
               ELSE IF key_valid = Some(TRUE)
                    THEN [st1 EXCEPT !.siliconflow_key = Some(a.siliconflow_key[1])]
                    ELSE [st1 EXCEPT !.siliconflow_key = Some(EmptyStr)]
        e2  == IF check_key /\ key_valid # Some(TRUE) THEN e1 \o <<ErrKeyCleared>> ELSE e1
        st3 == IF IsSome(a.simpletex_model)
               THEN [st2 EXCEPT !.simpletex_model = Some(a.simpletex_model[1])]
               ELSE st2
        st4 == IF IsSome(a.voucher_models_text)
               THEN [st3 EXCEPT !.voucher_models = Some(voucher_ids(a.voucher_models_text[1]))]
               ELSE st3
    IN  [store |-> st4, errors |-> e2]

\* lines 451-455
save_response(errors) == [ok |-> errors = <<>>, errors |-> errors]

CredentialArgs(c) == {None, Some(EmptyStr), Some(c)}

ModelArgs == {None, Some(EmptyStr), Some(LATEX_OCR_TURBO)}

VoucherLines == { <<>>, <<"a", "/", "b">>, <<" ", "a", "/", "b", " ">>, <<"a", "b">> }

VoucherTexts == {join(ls, <<"\n">>) : ls \in SeqsUpTo(VoucherLines, MaxLines)}

VoucherArgs == {None} \cup {Some(t) : t \in VoucherTexts}

\* save_settings, with simpletex_model and voucher_models_text drawn from the
\* given sets
SaveSettings(p, models, texts) ==
    /\ task[p].pc = "idle"
    /\ \E token \in CredentialArgs(TOKEN), key \in CredentialArgs(KEY),
          model \in models, text \in texts :
         LET a == [simpletex_token |-> token, siliconflow_key |-> key,
                   simpletex_model |-> model, voucher_models_text |-> text]
         IN  \E tv \in TokenVerdicts(token), kv \in KeyVerdicts(key) :
               LET o == save_outcome(store, a, tv, kv) IN
               /\ store' = o.store
               /\ saved' = [saved EXCEPT ![p] = save_response(o.errors)]
               /\ task' = [task EXCEPT ![p] =
                      [IdleTask EXCEPT !.cmd = "save_settings", !.pc = "done", !.args = a,
                                       !.token_valid = tv, !.key_valid = kv]]
    /\ UNCHANGED <<usage, today, result, settings, available, succeeded>>

\* save_settings(simpletex_token = TOKEN) with the answer to the probe of
\* validate_simpletex_token kept (lines 416-424, then 451-455)
SaveSettingsToken(p) ==
    /\ task[p].pc = "idle"
    /\ \E r \in StResponses :
         LET a  == [NoArgs EXCEPT !.simpletex_token = Some(TOKEN)]
             tv == Some(validate_simpletex_token(r))
             o  == save_outcome(store, a, tv, None)
         IN  /\ store' = o.store
             /\ saved' = [saved EXCEPT ![p] = save_response(o.errors)]
             /\ task' = [task EXCEPT ![p] =
                    [IdleTask EXCEPT !.cmd = "save_settings", !.pc = "done", !.args = a,
                                     !.token_valid = tv, !.answer = Some(r)]]
    /\ UNCHANGED <<usage, today, result, settings, available, succeeded>>

\* fetch_sf_balance (lines 213-226): whether a balance comes back
fetch_sf_balance(api_key, r) ==
    IF api_key = EmptyStr THEN None
    ELSE IF r.kind = "neterr" \/ ~is_success(r.status) \/ r.body # "json" THEN None
    ELSE Some("balance")

\* lines 371-404
settings_response(st, file, day, balance) ==
    [has_key |-> get_store_string(st, "siliconflow_key") # EmptyStr,
     has_simpletex |-> get_store_string(st, "simpletex_token") # EmptyStr,
     simpletex_model |-> IF get_store_string(st, "simpletex_model") = EmptyStr
                         THEN LATEX_OCR
                         ELSE get_store_string(st, "simpletex_model"),
     simpletex_usage_by_model |->
         [id \in SimpleTexIds |-> get_model_usage_today(file, day, id)],
     sf_balance |-> balance,
     voucher_models |-> get_store_vec(st, "voucher_models")]

GetSettings(p) ==
    /\ task[p].pc = "idle"
    /\ \E r \in SfInfoResponses :
         settings' = [settings EXCEPT ![p] =
             settings_response(store, usage, today,
                               fetch_sf_balance(get_store_string(store, "siliconflow_key"), r))]
    /\ task' = [task EXCEPT ![p] =
           [IdleTask EXCEPT !.cmd = "get_settings", !.pc = "done",
                            !.before = usage, !.day = today]]
    /\ UNCHANGED <<store, usage, today, result, saved, available, succeeded>>

\* ---------------------------------------------------------------- model catalog

QWEN_VL == <<"Qwen", "/", "Qwen2-VL">>

GLM_V == <<"THUDM", "/", "GLM-4.1V">>

PADDLE_OCR == <<"PaddlePaddle", "/", "PaddleOCR-VL">>

QWEN_CHAT == <<"Qwen", "/", "Qwen2.5-7B">>

\* the ids /v1/models?sub_type=chat lists
ModelIds == {QWEN_VL, GLM_V, PADDLE_OCR, QWEN_CHAT}

\* is_vision_model and is_ocr_only_model (lines 125-140) on the ids above
is_vision_model(id) == id \in {QWEN_VL, GLM_V, PADDLE_OCR}

is_ocr_only_model(id) == id = PADDLE_OCR

\* the answers of /v1/models: data is the array of ids, if the body has one
SfModelsNetErr == [kind |-> "neterr", status |-> 0, body |-> "none", data |-> None]

SfModelsHttp(status, body, data) ==
    [kind |-> "http", status |-> status, body |-> body, data |-> data]

\* the lists of at most MaxModels ids, none twice
ModelLists ==
    {l \in SeqsUpTo(ModelIds, MaxModels) : \A i, j \in 1..Len(l) : l[i] = l[j] => i = j}

SfModelsResponses(lists) ==
    {SfModelsNetErr, SfModelsHttp(500, "json", None), SfModelsHttp(200, "text", None),
     SfModelsHttp(200, "json", None)}
    \cup {SfModelsHttp(200, "json", Some(l)) : l \in lists}

\* fetch_pricing_map (lines 284-305): None for an id the page does not price,
\* else Some(<<input, output>>), both >= 0
Prices == {None} \cup {Some(<<i, o>>) : i \in 0..MaxPrice, o \in 0..MaxPrice}

PricingMaps == [{id \in ModelIds : is_vision_model(id)} -> Prices]

\* lines 250-272: the SfModel of a vision id (name, a display field, is left out)
sf_model(id, pricing_map) ==
    LET price        == IF id \in DOMAIN pricing_map THEN pricing_map[id] ELSE None
        input_price  == IF IsSome(price) THEN price[1][1] ELSE -1
        output_price == IF IsSome(price) THEN price[1][2] ELSE -1
        is_free      == input_price = 0 /\ output_price = 0
    IN  [id           |-> id,
         pricing      |-> IF input_price < 0 THEN "unknown"
                          ELSE IF is_free THEN "free" ELSE "priced",
         modes        |-> IF is_ocr_only_model(id) THEN <<"ocr">> ELSE <<"formula", "ocr">>,
         input_price  |-> IF input_price > 0 THEN input_price ELSE 0,
         output_price |-> IF output_price > 0 THEN output_price ELSE 0,
         free         |-> is_free]

\* lines 249-273: filter(is_vision_model).map(..).collect()
RECURSIVE vision_models(_, _)
vision_models(ids, pricing_map) ==
    IF ids = <<>> THEN <<>>
    ELSE IF is_vision_model(Head(ids))
         THEN <<sf_model(Head(ids), pricing_map)>> \o vision_models(Tail(ids), pricing_map)
         ELSE vision_models(Tail(ids), pricing_map)

\* sf_model_cmp by the input price alone
sf_model_cmp_price_only(a, b) ==
    IF a.input_price < b.input_price THEN "Less"
    ELSE IF a.input_price > b.input_price THEN "Greater"
    ELSE "Equal"

\* the closure of lines 276-280
sf_model_cmp(a, b) ==
    IF a.free /\ ~b.free THEN "Less"
    ELSE IF ~a.free /\ b.free THEN "Greater"
    ELSE IF a.input_price < b.input_price THEN "Less"
    ELSE IF a.input_price > b.input_price THEN "Greater"
    ELSE "Equal"

\* x put into the sorted list before the first element it is Less than
RECURSIVE insert_sorted(_, _)
insert_sorted(sorted, x) ==
    IF sorted = <<>> THEN <<x>>
    ELSE IF sf_model_cmp(x, Head(sorted)) = "Less" THEN <<x>> \o sorted
    ELSE <<Head(sorted)>> \o insert_sorted(Tail(sorted), x)

\* slice::sort_by, a stable sort, with the closure above
RECURSIVE sort_by(_)
sort_by(list) ==
    IF list = <<>> THEN <<>>
    ELSE insert_sorted(sort_by(SubSeq(list, 1, Len(list) - 1)), list[Len(list)])

\* lines 236-243: the ids of the answer
all_models_of(r) ==
    IF r.kind = "http" /\ is_success(r.status)
    THEN Some(IF r.body = "json" THEN unwrap_or(r.data, <<>>) ELSE <<>>)
    ELSE None

\* fetch_sf_vision_models (lines 228-282)
fetch_sf_vision_models(api_key, r, pricing_map) ==
    IF api_key = EmptyStr THEN <<>>
    ELSE IF ~IsSome(all_models_of(r)) THEN <<>>
    ELSE sort_by(vision_models(all_models_of(r)[1], pricing_map))

\* lines 602-621: the entries of the SimpleTex models
simpletex_entries(st_valid, file, day) ==
    [i \in 1..Len(SIMPLETEX_MODELS) |->
        LET m == SIMPLETEX_MODELS[i] IN
        [id          |-> PROVIDER_SIMPLETEX \o <<":">> \o m.id,
         provider    |-> "SimpleTex",
         modes       |-> IF m.mode = "document" THEN <<"formula", "ocr", "document">>
                         ELSE <<m.mode>>,
         available   |-> st_valid,
         usage_today |-> Some(get_model_usage_today(file, day, m.id)),
         pricing     |-> Some("free per day"),
         free        |-> None,
         voucher     |-> None,
         has_balance |-> FALSE]]

\* lines 627-643: the entries of the SiliconFlow models
siliconflow_entries(sf_models, sf_valid, voucher_models, sf_balance) ==
    [i \in 1..Len(sf_models) |->
        LET m == sf_models[i] IN
        [id          |-> PROVIDER_SILICONFLOW \o <<":">> \o m.id,
         provider    |-> "SiliconFlow",
         modes       |-> m.modes,
         available   |-> sf_valid,
         usage_today |-> None,
         pricing     |-> Some(m.pricing),
         free        |-> Some(m.free),
         voucher     |-> Some(\E k \in 1..Len(voucher_models) : voucher_models[k] = m.id),
         has_balance |-> IsSome(sf_balance)]]

\* lines 645-660
available_response(models, sf_balance) ==
    [models            |-> models,
     sf_balance        |-> IF IsSome(sf_balance) THEN Some("total") ELSE None,
     sf_charge_balance |-> IF IsSome(sf_balance) THEN Some("charge") ELSE None,
     voucher_balance   |-> IF IsSome(sf_balance) THEN Some("total - charge") ELSE None]

\* get_available_models, the /v1/models answer listing one of lists and the
\* pricing page giving one of maps
GetAvailableModels(p, lists, maps) ==
    /\ task[p].pc = "idle"
    /\ \E r \in SfModelsResponses(lists), pricing_map \in maps, b \in SfInfoResponses :
         LET st_valid   == get_store_string(store, "simpletex_token") # EmptyStr
             sf_key     == get_store_string(store, "siliconflow_key")
             sf_valid   == sf_key # EmptyStr
             sf_balance == IF sf_valid THEN fetch_sf_balance(sf_key, b) ELSE None
             sf_models  == IF sf_valid THEN fetch_sf_vision_models(sf_key, r, pricing_map)
                           ELSE <<>>
         IN  /\ available' = [available EXCEPT ![p] =
                    available_response(
                        simpletex_entries(st_valid, usage, today)
                          \o siliconflow_entries(sf_models, sf_valid,
                                                 get_store_vec(store, "voucher_models"),
                                                 sf_balance),
                        sf_balance)]
             /\ task' = [task EXCEPT ![p] =
                    [IdleTask EXCEPT !.cmd = "get_available_models", !.pc = "done",
                                     !.before = usage, !.day = today,
                                     !.all_models = IF sf_valid
                                                    THEN unwrap_or(all_models_of(r), <<>>)
                                                    ELSE <<>>,
                                     !.sf_models = sf_models]]
    /\ UNCHANGED <<store, usage, today, result, settings, saved, succeeded>>

\* ---------------------------------------------------------------- specifications

\* contents of provider-B answers: empty, blank, and texts that agree or
\* differ after normalisation
SpecContents ==
    { <<>>, <<" ">>, <<"a">>, <<"a", " ", "b">>, <<"a", " ", "\n", "b">>, <<"a", "b">> }

\* one answer of /v1/models and one pricing page
SpecLists == {<<QWEN_CHAT, GLM_V, QWEN_VL>>}

SpecPricingMaps ==
    {[id \in {QWEN_VL, GLM_V, PADDLE_OCR} |->
         IF id = QWEN_VL THEN Some(<<0, 0>>) ELSE IF id = GLM_V THEN Some(<<1, 1>>) ELSE None]}

\* Commands run one at a time (slot 1); every command, both providers.
Next ==
    \/ \E p \in {1} :
         \/ RecognizeCall(p, Selectors, Modes)
         \/ RecognizeSimpleTexAnswer(p)
         \/ RecognizePrimaryAnswer(p, SpecContents)
         \/ RecognizeVerifyAnswer(p, SpecContents)
         \/ GetSettings(p)
         \/ GetAvailableModels(p, SpecLists, SpecPricingMaps)
         \/ SaveSettings(p, {None}, {None})
         \/ Return(p)
    \/ Midnight

Spec == Init /\ [][Next]_vars

\* The verification protocol of provider B over every content up to MaxLen.
TextChars == {"a", "b", " ", "\n"}

AllContents == SeqsUpTo(TextChars, MaxLen)

InitVerify ==
    /\ store = [StoreDefaults EXCEPT !.siliconflow_key = Some(KEY)]
    /\ usage = UsageMissing
    /\ today = 1
    /\ task = [p \in Procs |-> IdleTask]
    /\ result = [p \in Procs |-> NoResult]
    /\ settings = [p \in Procs |-> NoSettings]
    /\ saved = [p \in Procs |-> NoSaved]
    /\ available = [p \in Procs |-> NoAvailable]
    /\ succeeded = EmptyMap

NextVerify ==
    \E p \in {1} :
      \/ RecognizeCall(p, {<<"siliconflow", ":", "Qwen2-VL">>}, Modes)
      \/ RecognizePrimaryAnswer(p, AllContents)
      \/ RecognizeVerifyAnswer(p, AllContents)
      \/ Return(p)

SpecVerify == InitVerify /\ [][NextVerify]_vars

\* The settings commands with every argument.
NextSettings ==
    \E p \in {1} :
      \/ SaveSettings(p, ModelArgs, VoucherArgs)
      \/ GetSettings(p)
      \/ Return(p)

SpecSettings == Init /\ [][NextSettings]_vars

\* The model catalog over every list of ids and every pricing map.
InitCatalog ==
    /\ store = [StoreDefaults EXCEPT !.siliconflow_key = Some(KEY),
                                     !.voucher_models = Some(<<QWEN_VL>>)]
    /\ usage = UsageMissing
    /\ today = 1
    /\ task = [p \in Procs |-> IdleTask]
    /\ result = [p \in Procs |-> NoResult]
    /\ settings = [p \in Procs |-> NoSettings]
    /\ saved = [p \in Procs |-> NoSaved]
    /\ available = [p \in Procs |-> NoAvailable]
    /\ succeeded = EmptyMap

NextCatalog ==
    \E p \in {1} :
      \/ GetAvailableModels(p, ModelLists, PricingMaps)
      \/ Return(p)

SpecCatalog == InitCatalog /\ [][NextCatalog]_vars

\* recognize on both providers, every provider call returning eventually.
InitLive ==
    /\ store \in {StoreDefaults,
                  [StoreDefaults EXCEPT !.simpletex_token = Some(TOKEN),
                                        !.siliconflow_key = Some(KEY)]}
    /\ usage = UsageMissing
    /\ today = 1
    /\ task = [p \in Procs |-> IdleTask]
    /\ result = [p \in Procs |-> NoResult]
    /\ settings = [p \in Procs |-> NoSettings]
    /\ saved = [p \in Procs |-> NoSaved]
    /\ available = [p \in Procs |-> NoAvailable]
    /\ succeeded = EmptyMap

NextLive ==
    \E p \in {1} :
      \/ RecognizeCall(p, Selectors, Modes)
      \/ RecognizeSimpleTexAnswer(p)
      \/ RecognizePrimaryAnswer(p, SpecContents)
      \/ RecognizeVerifyAnswer(p, SpecContents)
      \/ Return(p)

\* a provider call that was sent gets its answer, a response or a transport
\* error
SpecLive ==
    /\ InitLive /\ [][NextLive]_vars
    /\ \A p \in {1} :
         /\ WF_vars(RecognizeSimpleTexAnswer(p))
         /\ WF_vars(RecognizePrimaryAnswer(p, SpecContents))
         /\ WF_vars(RecognizeVerifyAnswer(p, SpecContents))

\* The validation of a provider-A token over every answer to its probe.
NextValidate ==
    \E p \in {1} :
      \/ SaveSettingsToken(p)
      \/ GetSettings(p)
      \/ Return(p)

SpecValidate == Init /\ [][NextValidate]_vars

\* Two recognize commands on provider A at once, the statements of
\* increment_model_usage interleaving.
ConcurrentSelectors ==
    {<<"simpletex", ":", "latex_ocr">>, <<"simpletex", ":", "simpletex_ocr">>}

ConcurrentResponses ==
    {StNetErr, [StHttp(200, "json") EXCEPT !.flag = Some(TRUE), !.res_latex = Some(<<"x">>)]}

InitConcurrent ==
    /\ store = [StoreDefaults EXCEPT !.simpletex_token = Some(TOKEN)]
    /\ usage = UsageMissing
    /\ today = 1
    /\ task = [p \in Procs |-> IdleTask]
    /\ result = [p \in Procs |-> NoResult]
    /\ settings = [p \in Procs |-> NoSettings]
    /\ saved = [p \in Procs |-> NoSaved]
    /\ available = [p \in Procs |-> NoAvailable]
    /\ succeeded = EmptyMap

NextConcurrent ==
    \E p \in Procs :
      \/ RecognizeCall(p, ConcurrentSelectors, {"formula"})
      \/ SimpleTexAnswer(p, ConcurrentResponses)
      \/ IncrementLoad(p)
      \/ IncrementWrite(p)
      \/ Return(p)

SpecConcurrent == InitConcurrent /\ [][NextConcurrent]_vars

\* ---------------------------------------------------------------- claims

DoneCmd(p, cmd) == task[p].pc = "done" /\ task[p].cmd = cmd

\* the request of slot p was served by provider B (SiliconFlow path)
OnProviderB(p) == task[p].provider # PROVIDER_SIMPLETEX

\* the stored record the command read is not of the day it read
StaleRead(p) == load_usage(task[p].before).date # FormatDate(task[p].day)

\* C1: when the stored usage record is not of today (a missing or unparsable
\* file loads as date ""), get_model_usage_today returns 0 for every model and
\* the record stays as it was, and increment_model_usage replaces the record by
\* date = today, counts = {model: 1}.
C1_StaleRecord ==
    \A p \in Procs :
      /\ (DoneCmd(p, "get_settings") /\ StaleRead(p))
           => /\ \A id \in SimpleTexIds : settings[p].simpletex_usage_by_model[id] = 0
              /\ usage = task[p].before
      /\ (DoneCmd(p, "recognize") /\ result[p].ok /\ ~OnProviderB(p) /\ StaleRead(p))
           => /\ usage.kind = "json"
              /\ usage.date = Some(FormatDate(task[p].day))
              /\ usage.models = Some([m \in {task[p].actual_model} |-> 1])

\* a recognition on a new day found yesterday's record with another model's count
C1_Witness ==
    \E p \in Procs :
      /\ DoneCmd(p, "recognize") /\ result[p].ok /\ ~OnProviderB(p)
      /\ task[p].before.kind = "json" /\ IsSome(task[p].before.date)
      /\ StaleRead(p)
      /\ \E k \in DOMAIN load_usage(task[p].before).models :
           k # task[p].actual_model /\ load_usage(task[p].before).models[k] > 0

\* the verification answer of slot p carried a non-empty text
Verified2(p) ==
    /\ DoneCmd(p, "recognize") /\ OnProviderB(p) /\ task[p].mode = "formula"
    /\ task[p].calls2 = 1 /\ task[p].net2 = "content"

\* a text with every whitespace character removed
strip_ws(s) == join(split_whitespace(s), <<>>)

\* C2 as stated: texts that differ only in whitespace are verified.
C2_WhitespaceOnly ==
    \A p \in Procs :
      (Verified2(p) /\ strip_ws(task[p].text1) = strip_ws(task[p].text2))
        => /\ result[p].ok
           /\ result[p].verified = Some(TRUE)
           /\ result[p].text = task[p].text1
           /\ result[p].original_text = None

\* C2, amended: when the primary and the verification text consist of the same
\* whitespace-separated pieces (they differ only in how long or of which
\* characters the whitespace runs between the pieces are), the result is verified=true, the
\* text is the primary text and originalText is absent.
C2_SamePieces ==
    \A p \in Procs :
      (Verified2(p) /\ split_whitespace(task[p].text1) = split_whitespace(task[p].text2))
        => /\ result[p].ok
           /\ result[p].verified = Some(TRUE)
           /\ result[p].text = task[p].text1
           /\ result[p].original_text = None

\* the two texts differ, in the whitespace between the same pieces only
C2_Witness ==
    \E p \in Procs :
      /\ Verified2(p)
      /\ task[p].text1 # task[p].text2
      /\ split_whitespace(task[p].text1) = split_whitespace(task[p].text2)
      /\ Len(split_whitespace(task[p].text1)) = 2
      /\ result[p].verified = Some(TRUE)

\* C3: a non-empty verification text that is not equal to the primary text
\* after normalisation gives verified=false, corrected=true, text = the
\* secondary text, originalText = the primary text.
C3_Corrected ==
    \A p \in Procs :
      (Verified2(p) /\ normalize_ws(task[p].text1) # normalize_ws(task[p].text2))
        => /\ result[p].ok
           /\ result[p].verified = Some(FALSE)
           /\ result[p].corrected = Some(TRUE)
           /\ result[p].text = task[p].text2
           /\ result[p].original_text = Some(task[p].text1)

C3_Witness ==
    \E p \in Procs :
      /\ Verified2(p)
      /\ task[p].text1 = <<"a", "b">> /\ task[p].text2 = <<"a", " ", "b">>
      /\ result[p].corrected = Some(TRUE)

\* C4: in formula mode on provider B with a non-empty primary text, a
\* verification that fails in transport, has a non-success status, an
\* unparsable body or an empty content still ends in Success with the primary
\* text, verified=false, corrected and originalText absent; no verification
\* outcome ends in Failure.
C4_VerifyFailureSwallowed ==
    \A p \in Procs :
      (DoneCmd(p, "recognize") /\ task[p].calls2 = 1)
        => /\ result[p].ok
           /\ task[p].net2 \in {"neterr", "http_error", "unparsable", "empty"}
                => /\ result[p].text = task[p].text1
                   /\ task[p].text1 # <<>>
                   /\ result[p].verified = Some(FALSE)
                   /\ result[p].corrected = None
                   /\ result[p].original_text = None

C4_Witness ==
    \E p \in Procs :
      /\ DoneCmd(p, "recognize") /\ task[p].calls2 = 1 /\ task[p].mode = "formula"
      /\ task[p].net2 = "neterr"
      /\ result[p].ok /\ result[p].text = task[p].text1

\* C5 as stated: a selector without ':' in a non-formula mode, with no
\* provider-A token stored, always ends in the error "no model selected",
\* whether or not a provider-B key is stored.
C5_NoModelSelected ==
    \A p \in Procs :
      ( /\ DoneCmd(p, "recognize")
        /\ ~contains(task[p].model_id, ":")
        /\ task[p].mode # "formula"
        /\ get_store_string(store, "simpletex_token") = EmptyStr )
        => (~result[p].ok /\ result[p].err.msg = ErrNoModel)

\* C6 as stated: in a successful result verified and corrected are present only
\* in formula mode on provider B.
C6_OnlyFormulaProviderB ==
    \A p \in Procs :
      ( /\ DoneCmd(p, "recognize") /\ result[p].ok
        /\ (IsSome(result[p].verified) \/ IsSome(result[p].corrected)) )
        => (task[p].mode = "formula" /\ OnProviderB(p))

\* C6, amended: in a successful result corrected is present only in formula mode
\* on provider B; verified is present only on provider B, in formula mode or,
\* in any other mode, as verified=false with an empty text; a provider-A result
\* has neither.
C6_FieldsPresent ==
    \A p \in Procs :
      (DoneCmd(p, "recognize") /\ result[p].ok)
        => /\ IsSome(result[p].corrected) => (task[p].mode = "formula" /\ OnProviderB(p))
           /\ IsSome(result[p].verified) =>
                /\ OnProviderB(p)
                /\ \/ task[p].mode = "formula"
                   \/ (result[p].text = <<>> /\ result[p].verified = Some(FALSE))
           /\ ~OnProviderB(p) => (result[p].verified = None /\ result[p].corrected = None)

\* a non-formula result with a text, and so with neither field
C6_Witness ==
    \E p \in Procs :
      /\ DoneCmd(p, "recognize") /\ result[p].ok /\ OnProviderB(p)
      /\ task[p].mode = "ocr" /\ result[p].text # <<>>
      /\ result[p].verified = None /\ result[p].corrected = None

\* the display names of SIMPLETEX_MODELS (lines 106-108)
DisplayName(id) ==
    IF id = LATEX_OCR THEN <<"SimpleTex standard">>
    ELSE IF id = LATEX_OCR_TURBO THEN <<"SimpleTex turbo">>
    ELSE IF id = SIMPLETEX_OCR THEN <<"SimpleTex general">>
    ELSE id

\* C7: on the provider-A path the usage count of the resolved model goes up by
\* exactly one if and only if the provider call succeeded, and the result then
\* has the label "SimpleTex (<display name>)" with verified, corrected and
\* originalText absent; with an empty token or a failed call the request ends in
\* Failure and the usage record is unchanged.
C7_CountOnSuccess ==
    \A p \in Procs :
      (DoneCmd(p, "recognize") /\ ~OnProviderB(p))
        => /\ result[p].ok <=> task[p].net1 = "status_true"
           /\ result[p].ok =>
                /\ get_model_usage_today(usage, task[p].day, task[p].actual_model)
                     = get_model_usage_today(task[p].before, task[p].day, task[p].actual_model) + 1
                /\ result[p].model
                     = <<"SimpleTex (">> \o DisplayName(task[p].actual_model) \o <<")">>
                /\ result[p].verified = None
                /\ result[p].corrected = None
                /\ result[p].original_text = None
           /\ ~result[p].ok => usage = task[p].before

\* a second success of the day: the count goes from 1 to 2
C7_Witness ==
    \E p \in Procs :
      /\ DoneCmd(p, "recognize") /\ ~OnProviderB(p) /\ result[p].ok
      /\ get_model_usage_today(task[p].before, task[p].day, task[p].actual_model) = 1
      /\ get_model_usage_today(usage, task[p].day, task[p].actual_model) = 2

\* C8: no concurrent-writer protection, the last writer wins: whatever the file
\* holds when a command writes, the count it writes is the count it loaded plus
\* one (so that two successes of the same day can raise the count by one).
C8_LastWriterWins ==
    [][\A p \in Procs :
         (task[p].pc = "incr_write" /\ task'[p].pc = "done")
           => get_model_usage_today(usage', task[p].day, task[p].actual_model)
                = get_model_usage_today(task[p].before, task[p].day, task[p].actual_model) + 1
      ]_vars

\* both commands succeeded on the same model and day, from the same loaded
\* record, and the stored count is one above it
C8_Witness ==
    /\ \A p \in Procs : DoneCmd(p, "recognize") /\ result[p].ok
    /\ task[1].actual_model = task[2].actual_model
    /\ task[1].day = task[2].day
    /\ task[1].before = task[2].before
    /\ get_model_usage_today(usage, task[1].day, task[1].actual_model)
         = get_model_usage_today(task[1].before, task[1].day, task[1].actual_model) + 1

\* C9: no retries: a request sends at most one primary and at most one
\* verification request, the latter only in formula mode on provider B after a
\* non-empty primary text; a failed primary call ends the request in Failure
\* with no further request.
C9_NoRetries ==
    \A p \in Procs :
      /\ task[p].calls1 <= 1
      /\ task[p].calls2 <= 1
      /\ task[p].calls2 = 1 =>
           /\ task[p].calls1 = 1
           /\ task[p].mode = "formula" /\ OnProviderB(p)
           /\ task[p].text1 # <<>>
      /\ task[p].net1 \in {"neterr", "http_error", "unparsable", "status_false"} =>
           /\ task[p].pc = "done" /\ ~result[p].ok
           /\ task[p].calls1 = 1 /\ task[p].calls2 = 0

C9_Witness ==
    \E p \in Procs :
      /\ DoneCmd(p, "recognize") /\ OnProviderB(p)
      /\ task[p].net1 = "neterr" /\ ~result[p].ok
      /\ task[p].calls1 = 1 /\ task[p].calls2 = 0

CheckedCredential(arg) == IsSome(arg) /\ arg[1] # EmptyStr

\* C10: save_settings validates each supplied non-empty credential: one that
\* passes is stored, one that fails is stored as "" and reported in errors; a
\* failed validation does not abort the save: the other credential,
\* simpletex_model and the voucher list of the same call are persisted; ok is
\* true exactly when errors is empty.
C10_SaveSettings ==
    \A p \in Procs :
      DoneCmd(p, "save_settings") =>
        LET a == task[p].args
            token_failed == CheckedCredential(a.simpletex_token) /\ task[p].token_valid # Some(TRUE)
            key_failed   == CheckedCredential(a.siliconflow_key) /\ task[p].key_valid # Some(TRUE)
            reported(e)  == \E i \in 1..Len(saved[p].errors) : saved[p].errors[i] = e
        IN  /\ CheckedCredential(a.simpletex_token) =>
                 store.simpletex_token = IF token_failed THEN Some(EmptyStr) ELSE a.simpletex_token
            /\ CheckedCredential(a.siliconflow_key) =>
                 store.siliconflow_key = IF key_failed THEN Some(EmptyStr) ELSE a.siliconflow_key
            /\ reported(ErrTokenCleared) <=> token_failed
            /\ reported(ErrKeyCleared) <=> key_failed
            /\ IsSome(a.simpletex_model) => store.simpletex_model = a.simpletex_model
            /\ IsSome(a.voucher_models_text) =>
                 store.voucher_models = Some(voucher_ids(a.voucher_models_text[1]))
            /\ saved[p].ok <=> saved[p].errors = <<>>
            /\ saved[p].ok <=> (~token_failed /\ ~key_failed)

\* the token fails its validation; the key, the model and a voucher list of
\* the same call are stored
C10_Witness ==
    \E p \in Procs :
      /\ DoneCmd(p, "save_settings")
      /\ task[p].token_valid = Some(FALSE) /\ task[p].key_valid = Some(TRUE)
      /\ store.simpletex_token = Some(EmptyStr)
      /\ store.siliconflow_key = Some(KEY)
      /\ store.simpletex_model = Some(LATEX_OCR_TURBO)
      /\ IsSome(task[p].args.voucher_models_text)
      /\ store.voucher_models = Some(<< <<"a", "/", "b">> >>)
      /\ ~saved[p].ok

\* the answer signals an authentication failure: HTTP 401, or a JSON body whose
\* error-type field (res.errType, else err_info.err_type) is "req_unauthorized"
AuthFailure(r) ==
    /\ r.kind = "http"
    /\ \/ r.status = 401
       \/ /\ r.body = "json"
          /\ or_else(r.res_errType, r.err_info_err_type) = Some("req_unauthorized")

\* C11 as stated: validate_simpletex_token returns false only for an
\* authentication failure (HTTP 401, or a JSON error-type field that signals
\* unauthorized); every other outcome of the probe, a server error and any
\* other failure of the call included, gives true.
C11_OnlyAuthFails ==
    \A p \in Procs :
      (DoneCmd(p, "save_settings") /\ IsSome(task[p].answer))
        => (task[p].token_valid = Some(FALSE) <=> AuthFailure(task[p].answer[1]))

\* the three JSON locations of the error type, in the order they are read
ErrTypeLocations(r) == <<r.res_errType, r.err_info_err_type, r.errType>>

\* location i holds code and no location read before it holds anything
HeldAt(r, i, code) ==
    /\ ErrTypeLocations(r)[i] = Some(code)
    /\ \A j \in 1..(i - 1) : ErrTypeLocations(r)[j] = None

\* C12: in recognize_simpletex, for an answer whose status flag is false, the
\* code "req_unauthorized" held at any one of the three locations res.errType,
\* err_info.err_type and errType (the locations read before it holding
\* nothing) gives the same error, the AuthError message, whichever location
\* held it.
C12_UnauthorizedAnyLocation ==
    \A p \in Procs :
      ( /\ DoneCmd(p, "recognize") /\ task[p].net1 = "status_false"
        /\ \E i \in 1..3 : HeldAt(task[p].answer[1], i, "req_unauthorized") )
        => (~result[p].ok /\ result[p].err = [msg |-> ErrStAuth, detail |-> <<>>])

\* the code is at the location read last, top-level errType, alone
C12_Witness ==
    \E p \in Procs :
      /\ DoneCmd(p, "recognize") /\ task[p].net1 = "status_false"
      /\ task[p].answer[1].flag = Some(FALSE)
      /\ HeldAt(task[p].answer[1], 3, "req_unauthorized")
      /\ result[p].err.msg = ErrStAuth

\* the position of id in the list /v1/models gave
ScrapePosition(ids, id) == CHOOSE k \in 1..Len(ids) : ids[k] = id

\* C13: in the list fetch_sf_vision_models returns, a free model precedes every
\* model that is not free; among models of equal free status the input prices
\* ascend, a model of unknown pricing counting as price 0; models equal in both
\* keep the order the ids were listed in.
C13_SortLaw ==
    \A p \in Procs :
      DoneCmd(p, "get_available_models") =>
        LET l == task[p].sf_models IN
        /\ \A i \in 1..Len(l) :
             l[i].pricing = "unknown" => (l[i].input_price = 0 /\ ~l[i].free)
        /\ \A i, j \in 1..Len(l) :
             /\ (l[i].free /\ ~l[j].free) => i < j
             /\ (i < j /\ l[i].free = l[j].free) => l[i].input_price <= l[j].input_price
             /\ (i < j /\ l[i].free = l[j].free /\ l[i].input_price = l[j].input_price)
                  => ScrapePosition(task[p].all_models, l[i].id)
                       < ScrapePosition(task[p].all_models, l[j].id)

\* the free model was listed last and comes first; a model of unknown pricing
\* and one priced 0 for input tie and keep their order, before a dearer one
C13_Witness ==
    \E p \in Procs :
      /\ DoneCmd(p, "get_available_models")
      /\ Len(task[p].sf_models) = 3
      /\ task[p].sf_models[1].free
      /\ ScrapePosition(task[p].all_models, task[p].sf_models[1].id) = Len(task[p].all_models)
      /\ task[p].sf_models[2].pricing = "unknown"
      /\ task[p].sf_models[3].pricing = "priced"
      /\ task[p].sf_models[3].input_price = 0

\* slot p holds a recognize command, in flight or finished
Recognizing(p) == task[p].cmd = "recognize"

\* C14: resolution in recognize: a selector with ':' is split at its first ':'
\* into (provider, modelId), so the provider holds no ':' and a modelId that
\* holds ':' is kept whole; a selector without ':' resolves to (provider A,
\* "latex_ocr") exactly when a provider-A token is stored and the mode is
\* "formula", and to (provider B, "") in every other case.
C14_Resolve ==
    \A p \in Procs :
      Recognizing(p) =>
        IF \E i \in 1..Len(task[p].model_id) : task[p].model_id[i] = ":"
        THEN /\ task[p].provider \o <<":">> \o task[p].actual_model = task[p].model_id
             /\ \A i \in 1..Len(task[p].provider) : task[p].provider[i] # ":"
        ELSE IF get_store_string(store, "simpletex_token") # EmptyStr
                  /\ task[p].mode = "formula"
             THEN task[p].provider = <<"simpletex">> /\ task[p].actual_model = <<"latex_ocr">>
             ELSE task[p].provider = <<"siliconflow">> /\ task[p].actual_model = <<>>

\* a model id that holds ':' itself
C14_Witness ==
    \E p \in Procs :
      /\ Recognizing(p)
      /\ task[p].model_id = <<"siliconflow", ":", "Pro/GLM-4V", ":", "beta">>
      /\ task[p].provider = <<"siliconflow">>
      /\ task[p].actual_model = <<"Pro/GLM-4V", ":", "beta">>

\* s with every maximal run of whitespace replaced by one space
RECURSIVE collapse_runs(_)
collapse_runs(s) ==
    IF s = <<>> THEN <<>>
    ELSE IF IsWhitespace(Head(s))
         THEN <<" ">> \o collapse_runs(trim_start(s))
         ELSE <<Head(s)>> \o collapse_runs(Tail(s))

\* C15: the verification comparison is equality after collapsing every run of
\* whitespace to a single space: the result is verified=true exactly when the
\* non-empty primary and secondary texts are equal under that collapse, and
\* then corrected=false and the returned text is the primary text as received,
\* neither the secondary text nor the collapsed form.
C15_CollapsedEquality ==
    \A p \in Procs :
      Verified2(p) =>
        /\ result[p].ok
        /\ result[p].verified = Some(TRUE)
             <=> collapse_runs(task[p].text1) = collapse_runs(task[p].text2)
        /\ result[p].verified = Some(TRUE) =>
             /\ result[p].corrected = Some(FALSE)
             /\ result[p].text = task[p].text1

\* the primary text holds a run of two whitespace characters and is returned
\* as it is, the secondary text being its collapsed form
C15_Witness ==
    \E p \in Procs :
      /\ Verified2(p)
      /\ task[p].text1 = <<"a", " ", "\n", "b">>
      /\ task[p].text2 = <<"a", " ", "b">>
      /\ result[p].verified = Some(TRUE)
      /\ result[p].corrected = Some(FALSE)
      /\ result[p].text = <<"a", " ", "\n", "b">>

\* the request of slot p waits for the answer to a provider call
Pending(p) == Recognizing(p) /\ task[p].pc \in {"st_call", "sf_call1", "sf_call2"}

\* the request of slot p has ended: Success (a response) or Failure (an error)
Terminal(p) == Recognizing(p) /\ task[p].pc = "done"

\* C16: a recognize request ends in exactly one of Success and Failure: every
\* provider call returning eventually, the request terminates; its result does
\* not change once it has ended; and a pending request is moved on by nothing
\* but the answer to its provider call, there being no timeout and no
\* cancellation, so that it stays pending for as long as the call does not return.
C16_Terminates ==
    /\ \A p \in Procs : Recognizing(p) ~> Terminal(p)
    /\ [](\A p \in Procs :
            /\ Terminal(p) =>
                 \/ result[p].ok /\ result[p].err = NoErr
                 \/ ~result[p].ok /\ result[p].err.msg # ""
            /\ Pending(p) => result[p] = NoResult)
    /\ [][\A p \in Procs :
            /\ Terminal(p) =>
                 \/ task'[p] = task[p] /\ result'[p] = result[p]
                 \/ task'[p] = IdleTask
            /\ (Pending(p) /\ task'[p] # task[p]) =>
                 /\ Recognizing(p)'
                 /\ IF task[p].pc = "sf_call2"
                    THEN task[p].net2 = "none" /\ task'[p].net2 # "none"
                    ELSE task[p].net1 = "none" /\ task'[p].net1 # "none"
       ]_vars

\* a request that waited for two provider calls has ended in Success
C16_Witness ==
    \E p \in Procs :
      /\ Terminal(p) /\ result[p].ok
      /\ task[p].calls1 = 1 /\ task[p].calls2 = 1
      /\ task[p].net1 = "content" /\ task[p].net2 = "http_error"

\* the models a count is asked for
CountedModels ==
    SimpleTexIds \cup DOMAIN succeeded \cup DOMAIN load_usage(usage).models
      \cup {task[p].actual_model : p \in Procs}

\* slot p holds a finished command that is not a Success via provider A
NotCounted(p) ==
    \/ DoneCmd(p, "get_settings")
    \/ DoneCmd(p, "get_available_models")
    \/ DoneCmd(p, "recognize") /\ (OnProviderB(p) \/ ~result[p].ok)

\* C17: commands running one at a time and the local date not changing,
\* get_model_usage_today(m) is the number of recognize commands so far (since
\* local midnight) that ended in Success via provider A with resolved model m,
\* and it is the value get_settings and get_available_models report; a
\* provider-B recognition, a failed recognition and the read-only commands
\* leave the usage record as it was.
C17_CountsSuccesses ==
    /\ \A m \in CountedModels :
         get_model_usage_today(usage, today, m) = MapGet(succeeded, m, 0)
    /\ \A p \in Procs :
         /\ NotCounted(p) => usage = task[p].before
         /\ (DoneCmd(p, "get_settings") /\ task[p].day = today) =>
              \A id \in SimpleTexIds :
                settings[p].simpletex_usage_by_model[id] = MapGet(succeeded, id, 0)
         /\ (DoneCmd(p, "get_available_models") /\ task[p].day = today) =>
              \A i \in 1..Len(SIMPLETEX_MODELS) :
                available[p].models[i].usage_today
                  = Some(MapGet(succeeded, SIMPLETEX_MODELS[i].id, 0))

\* after two successes on latex_ocr and none on the other models
\* get_available_models reports 2, 0 and 0
C17_Witness ==
    \E p \in Procs :
      /\ DoneCmd(p, "get_available_models") /\ task[p].day = today
      /\ MapGet(succeeded, LATEX_OCR, 0) = 2
      /\ available[p].models[1].usage_today = Some(2)
      /\ available[p].models[3].usage_today = Some(0)
      /\ Len(available[p].models) > Len(SIMPLETEX_MODELS)

\* C18: for a selector "p:m" whose provider part p is anything but exactly
\* "simpletex" (an unknown or an empty p included) recognize takes the
\* provider-B path: with no provider-B key stored it fails with the
\* not-configured error of provider B; with a key stored and m empty it fails
\* with "no model selected"; otherwise it sends m as the model to provider B.
\* It never calls provider A and leaves the usage record as it was.
C18_OtherProviderIsB ==
    \A p \in Procs :
      \A i \in 1..Len(task[p].model_id) :
        ( /\ Recognizing(p)
          /\ task[p].model_id[i] = ":"
          /\ \A j \in 1..(i - 1) : task[p].model_id[j] # ":"
          /\ SubSeq(task[p].model_id, 1, i - 1) # <<"simpletex">> )
        => LET m == SubSeq(task[p].model_id, i + 1, Len(task[p].model_id)) IN
           /\ task[p].pc # "st_call"
           /\ task[p].answer = None
           /\ usage = task[p].before
           /\ IF get_store_string(store, "siliconflow_key") = EmptyStr
              THEN /\ Terminal(p) /\ ~result[p].ok /\ task[p].calls1 = 0
                   /\ result[p].err.msg = ErrSfNotConfigured
              ELSE IF m = <<>>
                   THEN /\ Terminal(p) /\ ~result[p].ok /\ task[p].calls1 = 0
                        /\ result[p].err.msg = ErrNoModel
                   ELSE /\ task[p].calls1 = 1
                        /\ task[p].actual_model = m
                        /\ (Terminal(p) /\ result[p].ok) => result[p].model = m

\* an unknown provider, a provider-A token stored: the text comes from
\* provider B under the model of the selector
C18_Witness ==
    \E p \in Procs :
      /\ Terminal(p) /\ result[p].ok
      /\ task[p].model_id = <<"openai", ":", "Qwen2-VL">>
      /\ get_store_string(store, "simpletex_token") # EmptyStr
      /\ result[p].model = <<"Qwen2-VL">>
      /\ result[p].text # <<>>

====
